---- MODULE Spec2Model ----
(***************************************************************************)
(* HALIv2Index (src/include/indexes/rmi_index.h, second header of the      *)
(* file) with its BloomFilter (src/include/bloom_filter.h) and the hash    *)
(* it uses (src/include/hash_utils.h), as a state machine; next to it the  *)
(* PGMIndex baseline (src/include/indexes/pgm_index.h) and, evaluated on   *)
(* their own, RMIExpert::find, the expert selection of load and            *)
(* Config::adaptive_expert_count.                                          *)
(*                                                                         *)
(* Representation.                                                         *)
(*  - KeyType is an unsigned integer of KeyModulus values; key arithmetic  *)
(*    wraps modulo KeyModulus as uint64_t wraps modulo 2^64.               *)
(*  - std::optional<ValueType> is a set: {} is std::nullopt, {v} holds v.  *)
(*  - art::map and phmap::flat_hash_map are finite functions key -> value. *)
(*  - The doubles of load() are exact rationals: for the expert counts     *)
(*    and key spans of this model floor(d / (span/m)) = floor(d*m / span)  *)
(*    and floor(i * (span/m)) = floor(i*span / m) in IEEE double too.      *)
(*  - compression_level is held in tenths (0, 5, 10 for 0.0, 0.5, 1.0).    *)
(*  - xxhash64 is computed at HashBits bits instead of 64.                 *)
(*  - The linear model and r^2 are exact rationals where the program uses  *)
(*    doubles.                                                             *)
(*  - pgm::PGMIndex::search is outside the sources: PGMIndex takes any     *)
(*    range that holds a position of the key when the key is loaded.       *)
(***************************************************************************)
EXTENDS Integers, Sequences, FiniteSets, TLC

\* ------------------------------------------------------------------ bounds

\* Number of values of KeyType (2^64 in the program); keys are 0..KeyModulus-1.
KeyModulus == 5

\* Longest key/value sequence handed to load().
MaxBuild == 2

\* Most keys the delta buffer holds at once.
MaxDelta == 1

\* Width of the hash in bits (64 in the program).
HashBits == 4

\* Largest expected_elements a BloomFilter used on its own is constructed with.
MaxExpected == 2

\* Most insert calls on a BloomFilter used on its own between two clears.
MaxInserts == 6

Keys == 0 .. (KeyModulus - 1)

Values == {1, 2}

\* compression_level in tenths: 0.0, 0.5 and 1.0, the three the program runs.
CompressionLevels == {0, 5, 10}

nullopt == {}

Max(a, b) == IF a >= b THEN a ELSE b

Min(a, b) == IF a <= b THEN a ELSE b

RECURSIVE Pow2(_)
Pow2(n) == IF n = 0 THEN 1 ELSE 2 * Pow2(n - 1)

\* The function f itself, as a table: TLC computes every value of f when it builds
\* the table, instead of computing f[x] anew at every use.
Tabulate(f) == f @@ << >>

\* ------------------------------------------------------------------ hash_utils.h

HashMod == Pow2(HashBits)

\* The low 16 bits of the five primes, cut to the hash width.
PRIME64_1 == 51847 % HashMod

PRIME64_2 == 60239 % HashMod

PRIME64_3 == 31225 % HashMod

PRIME64_4 == 44643 % HashMod

PRIME64_5 == 26565 % HashMod

\* A shift or rotation count of the 64-bit code, scaled to the hash width.
Scaled(r) == (r * HashBits) \div 64

RECURSIVE XorBits(_, _, _)
XorBits(a, b, n) ==
    IF n = 0 THEN 0
    ELSE (((a % 2) + (b % 2)) % 2) + 2 * XorBits(a \div 2, b \div 2, n - 1)

Xor(a, b) == XorBits(a, b, HashBits)

rotl64(x, r) ==
    ((x * Pow2(Scaled(r))) % HashMod) + (x \div Pow2(HashBits - Scaled(r)))

ShiftRight(x, r) == x \div Pow2(Scaled(r))

\* xxhash64(&key, sizeof(KeyType) = 8, seed): len < 32, one 8-byte round, no
\* 4-byte or single-byte tail, then the avalanche.
xxhash64(key, seed) ==
    LET h0 == (seed + PRIME64_5 + 8) % HashMod
        k1 == (rotl64(((key % HashMod) * PRIME64_2) % HashMod, 31) * PRIME64_1) % HashMod
        h1 == Xor(h0, k1)
        h2 == (rotl64(h1, 27) * PRIME64_1 + PRIME64_4) % HashMod
        h3 == (Xor(h2, ShiftRight(h2, 33)) * PRIME64_2) % HashMod
        h4 == (Xor(h3, ShiftRight(h3, 29)) * PRIME64_3) % HashMod
    IN  Xor(h4, ShiftRight(h4, 32))

\* ------------------------------------------------------------------ bloom_filter.h

\* BloomFilter(expected_elements, bits_per_key)
BloomFilter(expected_elements, bits_per_key) ==
    [ num_bits |-> (((expected_elements * bits_per_key) + 63) \div 64) * 64,
      num_hash_functions |-> Max(1, (bits_per_key * 693) \div 1000),
      bits |-> {},
      num_inserted |-> 0 ]

\* h1 = xxhash64(&key, 8, 0) and h2 = xxhash64(&key, 8, h1) of every key, computed once.
KeyHashes ==
    Tabulate([ key \in Keys |->
                [ h1 |-> xxhash64(key, 0), h2 |-> xxhash64(key, xxhash64(key, 0)) ] ])

\* bit_pos of probe i: (h1 + i * h2) % num_bits, the sum wrapping at the hash width.
BitPos(bf, key, i) ==
    ((KeyHashes[key].h1 + i * KeyHashes[key].h2) % HashMod) % bf.num_bits

Probes(bf, key) == { BitPos(bf, key, i) : i \in 0 .. (bf.num_hash_functions - 1) }

BloomInsert(bf, key) ==
    [ bf EXCEPT !.bits = bf.bits \cup Probes(bf, key),
                !.num_inserted = bf.num_inserted + 1 ]

\* contains probing with i = 1 .. k instead of 0 .. k - 1.
BloomContainsShifted(bf, key) ==
    \A i \in 1 .. bf.num_hash_functions : BitPos(bf, key, i) \in bf.bits

\* BloomFilter::contains
BloomContains(bf, key) == \A p \in Probes(bf, key) : p \in bf.bits

BloomClear(bf) == [ bf EXCEPT !.bits = {}, !.num_inserted = 0 ]

RECURSIVE BloomInsertAll(_, _)
BloomInsertAll(bf, ks) ==
    IF ks = << >> THEN bf ELSE BloomInsertAll(BloomInsert(bf, Head(ks)), Tail(ks))

\* ------------------------------------------------------------------ sequences

\* std::pair's operator<: by key, then by value.
PairLess(a, b) == a[1] < b[1] \/ (a[1] = b[1] /\ a[2] < b[2])

RECURSIVE InsertSorted(_, _)
InsertSorted(x, s) ==
    IF s = << >> THEN << x >>
    ELSE IF PairLess(x, Head(s)) THEN << x >> \o s
    ELSE << Head(s) >> \o InsertSorted(x, Tail(s))

\* std::sort(sorted_data.begin(), sorted_data.end())
RECURSIVE SortPairs(_)
SortPairs(s) == IF s = << >> THEN << >> ELSE InsertSorted(Head(s), SortPairs(Tail(s)))

KeysOf(s) == [ i \in 1 .. Len(s) |-> s[i][1] ]

ValuesOf(s) == [ i \in 1 .. Len(s) |-> s[i][2] ]

KeySet(s) == { s[i][1] : i \in 1 .. Len(s) }

\* tree[k[i]] = v[i] for i = 0 .. k.size()-1: a later pair overwrites an earlier one.
MapOf(k, v) ==
    [ key \in { k[i] : i \in 1 .. Len(k) } |->
        v[CHOOSE i \in 1 .. Len(k) : k[i] = key /\ \A j \in 1 .. Len(k) : k[j] = key => j <= i] ]

EmptyMap == [ key \in {} |-> 0 ]

MapFind(m, key) == IF key \in DOMAIN m THEN { m[key] } ELSE nullopt

\* map.insert({key, value}): no effect when the key is there.
MapInsert(m, key, value) ==
    IF key \in DOMAIN m THEN m
    ELSE [ x \in (DOMAIN m) \cup { key } |-> IF x = key THEN value ELSE m[x] ]

MapErase(m, key) == [ x \in (DOMAIN m) \ { key } |-> m[x] ]

\* std::lower_bound(keys.begin() + lo, keys.begin() + hi, key), as a 0-based position.
LowerBound(keys, lo, hi, key) ==
    IF \E i \in lo .. (hi - 1) : keys[i + 1] >= key
    THEN CHOOSE i \in lo .. (hi - 1) :
            keys[i + 1] >= key /\ \A j \in lo .. (i - 1) : keys[j + 1] < key
    ELSE hi

\* ------------------------------------------------------------------ HALIv2Index::Config

\* floor(sqrt(n) / 100)
SqrtOver100(n) == Cardinality({ k \in 1 .. (n \div 10000) : 10000 * k * k <= n })

\* adaptive_expert_count with the scale falling from 2.0 to 0.5.
AdaptiveExpertCountFalling(n, c) ==
    LET base == Max(4, SqrtOver100(n))
    IN  Max(4, (base * (200 - 15 * c)) \div 100)

\* Config::adaptive_expert_count; c is the compression level in tenths.
adaptive_expert_count(n, c) ==
    LET base == Max(4, SqrtOver100(n))
    IN  Max(4, (base * (50 + 15 * c)) \div 100)

\* Config::bloom_bits_per_key
bloom_bits_per_key(c) == 5 + c

\* ------------------------------------------------------------------ experts

ARTExpert(k, v, min_k, max_k) ==
    [ type |-> "ART", min_key |-> min_k, max_key |-> max_k,
      keys |-> k, values |-> v, tree |-> MapOf(k, v) ]

\* ARTExpert::find without the comparison of the key found: the entry at the
\* lower bound of the key is returned whatever its key.
ARTExpertFindNearest(e, key) ==
    LET pos == LowerBound(e.keys, 0, Len(e.keys), key)
    IN  IF pos < Len(e.keys) THEN { e.values[pos + 1] } ELSE nullopt

\* ARTExpert::find
ARTExpertFind(e, key) == MapFind(e.tree, key)

\* RMIExpert::ERROR and the Epsilon of pgm::PGMIndex<KeyType, 64>
ERROR == 64

\* f[lo] + ... + f[hi], summed by halves.
RECURSIVE SumRange(_, _, _)
SumRange(f, lo, hi) ==
    IF lo > hi THEN 0
    ELSE IF lo = hi THEN f[lo]
    ELSE LET mid == (lo + hi) \div 2
         IN  SumRange(f, lo, mid) + SumRange(f, mid + 1, hi)

SumTo(f, n) == SumRange(f, 1, n)

\* The sums of RMIExpert::LinearModel::train over (keys[i], i), kept as integers:
\* slope = num / den with num = n*sum_xy - sum_x*sum_y, den = n*sum_x2 - sum_x^2
\* (both scaled by n), intercept = mean_y - slope * mean_x.
LinearModelTrain(k) ==
    LET n == Len(k)
        sum_x == SumTo(k, n)
        sum_y == SumTo([ i \in 1 .. n |-> i - 1 ], n)
        sum_xy == SumTo([ i \in 1 .. n |-> k[i] * (i - 1) ], n)
        sum_x2 == SumTo([ i \in 1 .. n |-> k[i] * k[i] ], n)
    IN  [ n |-> n, sum_x |-> sum_x, sum_y |-> sum_y,
          num |-> n * sum_xy - sum_x * sum_y,
          den |-> n * sum_x2 - sum_x * sum_x ]

\* a * b = q * c + r with 0 <= r < c, for a, b >= 0 and c > 0, by doubling: no
\* intermediate exceeds 2 * c + a.
RECURSIVE MulDiv(_, _, _)
MulDiv(a, b, c) ==
    IF b = 0 THEN [ q |-> 0, r |-> 0 ]
    ELSE LET h == MulDiv(a, b \div 2, c)
             d == [ q |-> 2 * h.q + (2 * h.r) \div c, r |-> (2 * h.r) % c ]
         IN  IF b % 2 = 0 THEN d
             ELSE [ q |-> d.q + (a \div c) + ((d.r + (a % c)) \div c),
                    r |-> (d.r + (a % c)) % c ]

\* floor(a * b / c) for a >= 0 and c > 0, b of either sign.
FloorMulDiv(a, b, c) ==
    IF b >= 0 THEN MulDiv(a, b, c).q
    ELSE LET m == MulDiv(a, 0 - b, c) IN 0 - (m.q + (IF m.r > 0 THEN 1 ELSE 0))

\* RMIExpert::LinearModel::predict: slope * key + intercept, clamped to [0, max_pos]
\* and truncated.  An untrained model (no keys) has slope = intercept = 0.
\* slope * key + intercept = (sum_y + num * (n * key - sum_x) / den) / n.
LinearModelPredict(model, key, max_pos) ==
    IF model.n = 0 THEN 0
    ELSE IF model.den > 0
    THEN LET top == model.sum_y
                      + FloorMulDiv(model.num, model.n * key - model.sum_x, model.den)
         IN  IF top < 0 THEN 0 ELSE Min(top \div model.n, max_pos)
    ELSE Min(model.sum_y \div model.n, max_pos)

RMIExpert(k, v, min_k, max_k) ==
    [ type |-> "RMI", min_key |-> min_k, max_key |-> max_k,
      keys |-> k, values |-> v, tree |-> EmptyMap, model |-> LinearModelTrain(k) ]

\* RMIExpert::find: the predicted position and the window [start, end) searched.
RMIExpertWindow(e, key) ==
    LET size == Len(e.keys)
        pos == LinearModelPredict(e.model, key, size - 1)
    IN  [ pos |-> pos,
          start |-> IF pos > ERROR THEN pos - ERROR ELSE 0,
          end |-> Min(pos + ERROR, size) ]

\* RMIExpert::find
RMIExpertFind(e, key) ==
    LET w == RMIExpertWindow(e, key)
        it == LowerBound(e.keys, w.start, w.end, key)
    IN  IF it # w.end /\ e.keys[it + 1] = key THEN { e.values[it + 1] } ELSE nullopt

PGMExpert(k, v, min_k, max_k) ==
    [ type |-> "PGM", min_key |-> min_k, max_key |-> max_k,
      keys |-> k, values |-> v, tree |-> EmptyMap ]

\* pgm.search(key) of the PGM-index library: {lo, hi} around an approximate position
\* that is within Epsilon of the key's lower bound; the model takes the lower bound.
PGMSearch(k, key) ==
    LET pos == LowerBound(k, 0, Len(k), key)
    IN  [ lo |-> IF pos <= ERROR THEN 0 ELSE pos - ERROR,
          hi |-> IF pos + ERROR + 2 >= Len(k) THEN Len(k) ELSE pos + ERROR + 2 ]

\* PGMExpert::find
PGMExpertFind(e, key) ==
    LET range == PGMSearch(e.keys, key)
        it == LowerBound(e.keys, range.lo, range.hi, key)
    IN  IF it # range.hi /\ e.keys[it + 1] = key THEN { e.values[it + 1] } ELSE nullopt

\* Expert::find, dispatched on the expert's type.
ExpertFind(e, key) ==
    CASE e.type = "ART" -> ARTExpertFind(e, key)
      [] e.type = "RMI" -> RMIExpertFind(e, key)
      [] e.type = "PGM" -> PGMExpertFind(e, key)

\* Products of the sums exceed 32-bit integers: they are kept as
\* sequences of digits in base WideBase, lowest digit first.
WideBase == 10000

Wide(a) == << a % WideBase, (a \div WideBase) % WideBase, a \div (WideBase * WideBase) >>

RECURSIVE Carry(_, _)
Carry(digits, carry) ==
    IF digits = << >>
    THEN (IF carry = 0 THEN << >>
          ELSE << carry % WideBase >> \o Carry(<< >>, carry \div WideBase))
    ELSE << (Head(digits) + carry) % WideBase >>
            \o Carry(Tail(digits), (Head(digits) + carry) \div WideBase)

WideMul(x, y) ==
    Carry([ k \in 1 .. (Len(x) + Len(y) - 1) |->
              SumRange([ i \in 1 .. Len(x) |->
                           IF (k + 1 - i) \in 1 .. Len(y) THEN x[i] * y[k + 1 - i] ELSE 0 ],
                       1, Len(x)) ], 0)

WideScale(x, factor) == Carry([ i \in 1 .. Len(x) |-> x[i] * factor ], 0)

WideLess(x, y) ==
    LET digit(w, i) == IF i <= Len(w) THEN w[i] ELSE 0
        n == Max(Len(x), Len(y))
    IN  \E i \in 1 .. n :
            digit(x, i) < digit(y, i) /\ \A j \in (i + 1) .. n : digit(x, j) = digit(y, j)

\* HALIv2Index::measure_linearity: r^2 as the fraction << top, bottom >> with
\* top = num^2 and bottom = den_x * den_y.
measure_linearity(k) ==
    IF Len(k) < 2 THEN << Wide(1), Wide(1) >>
    ELSE LET n == Len(k)
             m == LinearModelTrain(k)
             sum_y2 == SumTo([ i \in 1 .. n |-> (i - 1) * (i - 1) ], n)
             den_y == n * sum_y2 - m.sum_y * m.sum_y
         IN  IF m.den <= 0 \/ den_y <= 0 THEN << Wide(0), Wide(1) >>
             ELSE << WideMul(Wide(m.num), Wide(m.num)), WideMul(Wide(m.den), Wide(den_y)) >>

\* linearity > percent / 100
LinearityAbove(linearity, percent) ==
    WideLess(WideScale(linearity[2], percent), WideScale(linearity[1], 100))

\* select_expert_type with the balanced rows only strictly between 0.3 and 0.7.
SelectExpertTypeStrictBalanced(part_keys, c) ==
    IF Len(part_keys) < 100 THEN "ART"
    ELSE LET linearity == measure_linearity(part_keys)
         IN  IF c <= 3
             THEN (IF LinearityAbove(linearity, 90) THEN "RMI" ELSE "ART")
             ELSE IF c >= 7
             THEN (IF LinearityAbove(linearity, 70) THEN "PGM" ELSE "RMI")
             ELSE IF LinearityAbove(linearity, 95) THEN "PGM"
             ELSE IF LinearityAbove(linearity, 80) THEN "RMI"
             ELSE "ART"

\* HALIv2Index::select_expert_type; c is the compression level in tenths.
select_expert_type(part_keys, c) ==
    IF Len(part_keys) < 100 THEN "ART"
    ELSE LET linearity == measure_linearity(part_keys)
         IN  IF c < 3
             THEN (IF LinearityAbove(linearity, 90) THEN "RMI" ELSE "ART")
             ELSE IF c > 7
             THEN (IF LinearityAbove(linearity, 70) THEN "PGM" ELSE "RMI")
             ELSE IF LinearityAbove(linearity, 95) THEN "PGM"
             ELSE IF LinearityAbove(linearity, 80) THEN "RMI"
             ELSE "ART"

MakeExpert(type, k, v, min_k, max_k) ==
    CASE type = "PGM" -> PGMExpert(k, v, min_k, max_k)
      [] type = "RMI" -> RMIExpert(k, v, min_k, max_k)
      [] OTHER -> ARTExpert(k, v, min_k, max_k)

\* ------------------------------------------------------------------ state

VARIABLES
    compression_level,   \* config_.compression_level, in tenths
    experts,             \* experts_
    expert_boundaries,   \* expert_boundaries_
    global_bloom,        \* global_bloom_
    expert_blooms,       \* expert_blooms_
    delta_buffer_art,    \* delta_buffer_art_ (compression_level >= 0.5)
    delta_buffer_hash,   \* delta_buffer_hash_ (compression_level < 0.5)
    total_size,          \* total_size_
    loaded,              \* history: the pairs of the last load, in sorted order
    ref,                 \* history: the reference map run side by side
    last,                \* history: the last call, its result and what it saw
    alive,               \* the process runs: no call has ended it by a fault
    filter,              \* a BloomFilter used on its own
    inserted,            \* history: the keys inserted into filter since it was made or cleared
    pgm_keys,            \* PGMIndex::keys_
    pgm_values,          \* PGMIndex::values_
    insert_buffer,       \* PGMIndex::insert_buffer_
    args,                \* the arguments of a function evaluated on its own
    result               \* what that function returned for args

vars ==
    << compression_level, experts, expert_boundaries, global_bloom, expert_blooms,
       delta_buffer_art, delta_buffer_hash, total_size, loaded, ref, last,
       alive, filter, inserted, pgm_keys, pgm_values, insert_buffer, args, result >>

\* The members of PGMIndex (pgm_ is computed from keys_).
baseline == << pgm_keys, pgm_values, insert_buffer >>

\* A function evaluated on its own: its arguments and what it returned.
evaluation == << args, result >>

\* No function is being evaluated.
NoEvaluation == [ fn |-> "none" ]

Unevaluated == args = NoEvaluation /\ result = NoEvaluation

\* The members of HALIv2Index.
index ==
    << compression_level, experts, expert_boundaries, global_bloom, expert_blooms,
       delta_buffer_art, delta_buffer_hash, total_size >>

static_tier == << experts, expert_boundaries, global_bloom, expert_blooms, total_size >>

\* The delta buffer selected with the comparison turned round.
DeltaOfOther(c, hash, art) == IF c < 5 THEN art ELSE hash

\* The delta buffer config_.compression_level < 0.5 selects.
DeltaOf(c, hash, art) == IF c < 5 THEN hash ELSE art

delta == DeltaOf(compression_level, delta_buffer_hash, delta_buffer_art)

\* ------------------------------------------------------------------ HALIv2Index::find

\* std::upper_bound(expert_boundaries_.begin(), expert_boundaries_.end() - 1, key),
\* as a 0-based position.
UpperBound(boundaries, key) ==
    LET hi == Len(boundaries) - 1
    IN  IF \E i \in 0 .. (hi - 1) : boundaries[i + 1] > key
        THEN CHOOSE i \in 0 .. (hi - 1) :
                boundaries[i + 1] > key /\ \A j \in 0 .. (i - 1) : boundaries[j + 1] <= key
        ELSE hi

\* route_to_expert stepping back from the first boundary as well.
RouteToExpertUnchecked(exps, boundaries, key) ==
    IF exps = << >> THEN 0
    ELSE LET it == UpperBound(boundaries, key)
         IN  IF it - 1 >= Len(exps) THEN Len(exps) - 1
             ELSE it - 1

\* HALIv2Index::route_to_expert
RouteToExpert(exps, boundaries, key) ==
    IF exps = << >> THEN 0
    ELSE LET it == UpperBound(boundaries, key)
         IN  IF it = 0 THEN 0
             ELSE IF it - 1 >= Len(exps) THEN Len(exps) - 1
             ELSE it - 1

route_to_expert(key) == RouteToExpert(experts, expert_boundaries, key)

\* HALIv2Index::find from the static tier on: levels 2 to 6.
FindStatic(key) ==
    IF experts = << >> THEN nullopt
    ELSE IF ~BloomContains(global_bloom, key) THEN nullopt
    ELSE LET expert_id == route_to_expert(key)
         IN  IF expert_id >= Len(experts) THEN nullopt
             ELSE IF /\ expert_id < Len(expert_blooms)
                     /\ ~BloomContains(expert_blooms[expert_id + 1], key)
                     /\ \/ key < experts[expert_id + 1].min_key
                        \/ key > experts[expert_id + 1].max_key
             THEN nullopt
             ELSE ExpertFind(experts[expert_id + 1], key)

\* find asking the global Bloom filter before the delta buffer.
FindWithBloomFirst(hash, art, key) ==
    LET d == DeltaOf(compression_level, hash, art)
    IN  IF experts # << >> /\ ~BloomContains(global_bloom, key) THEN nullopt
        ELSE IF key \in DOMAIN d THEN { d[key] }
        ELSE FindStatic(key)

\* HALIv2Index::find with the delta buffers given: level 1, then the static tier.
FindWith(hash, art, key) ==
    LET d == DeltaOf(compression_level, hash, art)
    IN  IF key \in DOMAIN d THEN { d[key] } ELSE FindStatic(key)

find(key) == FindWith(delta_buffer_hash, delta_buffer_art, key)

\* size() counting the static tier alone.
size_static == total_size

\* HALIv2Index::size
size == total_size + Cardinality(DOMAIN delta)

\* ------------------------------------------------------------------ HALIv2Index::load

min_global_key(sd) == sd[1][1]

max_global_key(sd) == sd[Len(sd)][1]

\* num_experts: the adaptive count, or 1 when all keys are the same.
NumExperts(sd, c) ==
    IF min_global_key(sd) = max_global_key(sd) THEN 1
    ELSE adaptive_expert_count(Len(sd), c)

\* max_global_key - min_global_key + 1 in KeyType; range_per_expert is this over
\* num_experts.  It is 0 when the keys span the whole key type.
KeySpan(sd) == (max_global_key(sd) - min_global_key(sd) + 1) % KeyModulus

\* static_cast<size_t> of a double that is not finite is undefined: with
\* range_per_expert = 0.0 the quotient is NaN for the smallest key and +inf for
\* the others.  The builds give 0 or a value of 2^63 and more, which std::min
\* turns into num_experts - 1.  ub.nan and ub.inf say which of the two each cast gives.
CastOutcomes == [ nan : BOOLEAN, inf : BOOLEAN ]

CastChoices(sd) == IF KeySpan(sd) = 0 THEN CastOutcomes ELSE { [ nan |-> FALSE, inf |-> FALSE ] }

\* expert_id = min(size_t((key - min_global_key) / range_per_expert), num_experts - 1)
ExpertIdOf(sd, c, ub, key) ==
    LET m == NumExperts(sd, c)
        span == KeySpan(sd)
        d == (key - min_global_key(sd)) % KeyModulus
    IN  IF span = 0
        THEN (IF (IF d = 0 THEN ub.nan ELSE ub.inf) THEN m - 1 ELSE 0)
        ELSE Min((d * m) \div span, m - 1)

\* expert_data[i] filled by a loop that starts at the second pair.
ExpertDataSkippingFirst(sd, c, ub, i) ==
    SelectSeq(Tail(sd), LAMBDA kv : ExpertIdOf(sd, c, ub, kv[1]) = i)

\* expert_data[i]
expert_data(sd, c, ub, i) ==
    SelectSeq(sd, LAMBDA kv : ExpertIdOf(sd, c, ub, kv[1]) = i)

\* expected_min = min_global_key + KeyType(i * range_per_expert)
expected_min(sd, c, i) ==
    (min_global_key(sd) + ((i * KeySpan(sd)) \div NumExperts(sd, c))) % KeyModulus

\* expected_max
expected_max(sd, c, i) ==
    IF i = NumExperts(sd, c) - 1 THEN max_global_key(sd)
    ELSE (min_global_key(sd) + (((i + 1) * KeySpan(sd)) \div NumExperts(sd, c)) - 1) % KeyModulus

\* The expert pushed for a partition holding the pairs part: an empty ART
\* placeholder with the expected range, or the selected expert with the actual
\* range of its keys.
ExpertOfPartition(part, c, exp_min, exp_max) ==
    LET part_keys == KeysOf(part)
        part_values == ValuesOf(part)
    IN  IF part = << >>
        THEN ARTExpert(<< >>, << >>, exp_min, exp_max)
        ELSE MakeExpert(select_expert_type(part_keys, c), part_keys, part_values,
                        part_keys[1], part_keys[Len(part_keys)])

\* The expert pushed for partition i.
LoadExpert(sd, c, ub, i) ==
    ExpertOfPartition(expert_data(sd, c, ub, i), c, expected_min(sd, c, i), expected_max(sd, c, i))

\* The Bloom filter pushed for partition i.
LoadBloom(sd, c, ub, i) ==
    LET part_keys == KeysOf(expert_data(sd, c, ub, i))
    IN  IF part_keys = << >> THEN BloomFilter(1, bloom_bits_per_key(c))
        ELSE BloomInsertAll(BloomFilter(Len(part_keys), bloom_bits_per_key(c)), part_keys)

\* expert_boundaries_: expected_min of every expert, then the sentinel.
LoadBoundaries(sd, c) ==
    [ i \in 1 .. (NumExperts(sd, c) + 1) |->
        IF i <= NumExperts(sd, c) THEN expected_min(sd, c, i - 1)
        ELSE (max_global_key(sd) + 1) % KeyModulus ]

NoCall ==
    [ op |-> "none", key |-> 0, value |-> 0, ret |-> FALSE, refret |-> FALSE,
      before |-> nullopt, in_delta |-> FALSE, size_before |-> 0 ]

\* Everything load(keys, values) computes from its input, the compression level c
\* and the outcome ub of the undefined casts; kvs[i] is << keys[i], values[i] >>.
LoadResult(kvs, c, ub) ==
    LET sd == SortPairs(kvs)
        m == NumExperts(sd, c)
    IN  [ total_size |-> Len(kvs),
          sorted_data |-> sd,
          experts |-> [ i \in 1 .. m |-> LoadExpert(sd, c, ub, i - 1) ],
          expert_boundaries |-> LoadBoundaries(sd, c),
          global_bloom |->
              BloomInsertAll(BloomFilter(Len(kvs), bloom_bits_per_key(c)), KeysOf(sd)),
          expert_blooms |-> [ i \in 1 .. m |-> LoadBloom(sd, c, ub, i - 1) ] ]

\* The inputs of load: every sequence of 1 .. MaxBuild pairs, repeated keys included.
RECURSIVE SeqsUpTo(_, _)
SeqsUpTo(S, n) ==
    IF n = 0 THEN { << >> }
    ELSE LET shorter == SeqsUpTo(S, n - 1)
         IN  shorter \cup { Append(s, x) : s \in { t \in shorter : Len(t) = n - 1 }, x \in S }

LoadInputs == SeqsUpTo(Keys \X Values, MaxBuild) \ { << >> }

\* The reference map after load: the given pairs.
RefOfLoad(kvs) == MapOf(KeysOf(SortPairs(kvs)), ValuesOf(SortPairs(kvs)))

\* LoadResult and RefOfLoad of every input, computed once.
LoadResults ==
    Tabulate([ c \in CompressionLevels |->
        Tabulate([ kvs \in LoadInputs |->
            Tabulate([ ub \in CastChoices(SortPairs(kvs)) |->
                [ index |-> LoadResult(kvs, c, ub), ref |-> RefOfLoad(kvs) ] ]) ]) ])

\* load that rebuilds the static tier and keeps the delta buffers.
LoadKeepingDelta(kvs, ub) ==
    LET r == LoadResults[compression_level][kvs][ub].index
    IN  /\ alive
        /\ total_size' = r.total_size
        /\ experts' = r.experts
        /\ expert_boundaries' = r.expert_boundaries
        /\ global_bloom' = r.global_bloom
        /\ expert_blooms' = r.expert_blooms
        /\ loaded' = r.sorted_data
        /\ ref' = LoadResults[compression_level][kvs][ub].ref
        /\ last' = [ NoCall EXCEPT !.op = "load", !.in_delta = (DOMAIN delta # {}),
                                   !.size_before = size ]
        /\ UNCHANGED << compression_level, delta_buffer_art, delta_buffer_hash, alive,
                        filter, inserted, baseline, evaluation >>

\* load(keys, values) with keys.size() == values.size() >= 1.  last keeps what
\* the index held before: its size and whether the delta buffer held a key.
Load(kvs, ub) ==
    LET r == LoadResults[compression_level][kvs][ub].index
    IN  /\ alive
        /\ total_size' = r.total_size
        /\ experts' = r.experts
        /\ expert_boundaries' = r.expert_boundaries
        /\ global_bloom' = r.global_bloom
        /\ expert_blooms' = r.expert_blooms
        /\ delta_buffer_art' = EmptyMap
        /\ delta_buffer_hash' = EmptyMap
        /\ loaded' = r.sorted_data
        /\ ref' = LoadResults[compression_level][kvs][ub].ref
        /\ last' = [ NoCall EXCEPT !.op = "load", !.in_delta = (DOMAIN delta # {}),
                                   !.size_before = size ]
        /\ UNCHANGED << compression_level, alive, filter, inserted, baseline, evaluation >>

\* HALIv2Index::load with keys and values empty.  The size check passes, the
\* members up to expert_blooms_ are reset for 0 keys, and sorted_data.front() then
\* reads the first element of a vector that has none and was never allocated: the
\* read goes through a null pointer and ends the process.  The delta buffers are
\* cleared only at the end of load, which is not reached.
LoadEmpty ==
    /\ alive
    /\ total_size' = 0
    /\ experts' = << >>
    /\ expert_boundaries' = << >>
    /\ global_bloom' = BloomFilter(0, bloom_bits_per_key(compression_level))
    /\ expert_blooms' = << >>
    /\ alive' = FALSE
    /\ loaded' = << >>
    /\ ref' = EmptyMap
    /\ last' = [ NoCall EXCEPT !.op = "load" ]
    /\ UNCHANGED << compression_level, delta_buffer_art, delta_buffer_hash, filter, inserted, baseline, evaluation >>

\* load with the size check placed after the assignment of total_size_.
LoadMismatchLate(keys_size, values_size) ==
    /\ alive
    /\ keys_size # values_size
    /\ total_size' = keys_size
    /\ last' = [ NoCall EXCEPT !.op = "load_throw" ]
    /\ UNCHANGED << compression_level, experts, expert_boundaries, global_bloom,
                    expert_blooms, delta_buffer_art, delta_buffer_hash,
                    loaded, ref, alive, filter, inserted, baseline, evaluation >>

\* HALIv2Index::load with keys.size() != values.size(): the first statement throws
\* std::invalid_argument, nothing else of load runs.
LoadMismatch(keys_size, values_size) ==
    /\ alive
    /\ keys_size # values_size
    /\ last' = [ NoCall EXCEPT !.op = "load_throw" ]
    /\ UNCHANGED << index, loaded, ref, alive, filter, inserted, baseline, evaluation >>

\* ------------------------------------------------------------------ insert, erase, clear

\* What insert(key, value) returns: false when find(key) has a value, else
\* result.second of the selected delta buffer's insert.
InsertReturn(key, value) ==
    IF find(key) # nullopt THEN FALSE
    ELSE IF compression_level < 5 THEN key \notin DOMAIN delta_buffer_hash
    ELSE key \notin DOMAIN delta_buffer_art

\* insert that also enters the accepted key into the global Bloom filter.
InsertIntoBloom(key, value) ==
    /\ alive
    /\ InsertReturn(key, value) => Cardinality(DOMAIN delta) < MaxDelta
    /\ IF find(key) # nullopt
       THEN UNCHANGED << delta_buffer_hash, delta_buffer_art, global_bloom >>
       ELSE /\ global_bloom' = BloomInsert(global_bloom, key)
            /\ IF compression_level < 5
               THEN /\ delta_buffer_hash' = MapInsert(delta_buffer_hash, key, value)
                    /\ UNCHANGED delta_buffer_art
               ELSE /\ delta_buffer_art' = MapInsert(delta_buffer_art, key, value)
                    /\ UNCHANGED delta_buffer_hash
    /\ ref' = MapInsert(ref, key, value)
    /\ last' = [ op |-> "insert", key |-> key, value |-> value,
                 ret |-> InsertReturn(key, value), refret |-> key \notin DOMAIN ref,
                 before |-> find(key),
                 in_delta |-> key \in DOMAIN delta, size_before |-> size ]
    /\ UNCHANGED << compression_level, experts, expert_boundaries, expert_blooms,
                    total_size, loaded, alive, filter, inserted, baseline, evaluation >>

\* HALIv2Index::insert
Insert(key, value) ==
    /\ alive
    /\ InsertReturn(key, value) => Cardinality(DOMAIN delta) < MaxDelta
    /\ IF find(key) # nullopt
       THEN UNCHANGED << delta_buffer_hash, delta_buffer_art >>
       ELSE IF compression_level < 5
       THEN /\ delta_buffer_hash' = MapInsert(delta_buffer_hash, key, value)
            /\ UNCHANGED delta_buffer_art
       ELSE /\ delta_buffer_art' = MapInsert(delta_buffer_art, key, value)
            /\ UNCHANGED delta_buffer_hash
    /\ ref' = MapInsert(ref, key, value)
    /\ last' = [ op |-> "insert", key |-> key, value |-> value,
                 ret |-> InsertReturn(key, value), refret |-> key \notin DOMAIN ref,
                 before |-> find(key),
                 in_delta |-> key \in DOMAIN delta, size_before |-> size ]
    /\ UNCHANGED << compression_level, static_tier, loaded, alive, filter, inserted, baseline, evaluation >>

\* map.erase(key): the number of entries it removes.
MapEraseCount(m, key) == Cardinality(DOMAIN m) - Cardinality(DOMAIN MapErase(m, key))

\* erase(key) reporting whether the key was present in the index at all.
EraseReturnPresent(key) == find(key) # nullopt

\* What erase(key) returns: erase(key) > 0 of the selected delta buffer.
EraseReturn(key) ==
    IF compression_level < 5 THEN MapEraseCount(delta_buffer_hash, key) > 0
    ELSE MapEraseCount(delta_buffer_art, key) > 0

\* HALIv2Index::erase
Erase(key) ==
    /\ alive
    /\ IF compression_level < 5
       THEN /\ delta_buffer_hash' = MapErase(delta_buffer_hash, key)
            /\ UNCHANGED delta_buffer_art
       ELSE /\ delta_buffer_art' = MapErase(delta_buffer_art, key)
            /\ UNCHANGED delta_buffer_hash
    /\ ref' = IF key \in DOMAIN ref /\ key \notin KeySet(loaded) THEN MapErase(ref, key) ELSE ref
    /\ last' = [ op |-> "erase", key |-> key, value |-> 0,
                 ret |-> EraseReturn(key),
                 refret |-> (key \in DOMAIN ref /\ key \notin KeySet(loaded)),
                 before |-> find(key),
                 in_delta |-> key \in DOMAIN delta, size_before |-> size ]
    /\ UNCHANGED << compression_level, static_tier, loaded, alive, filter, inserted, baseline, evaluation >>

\* clear that leaves the delta buffers as they are.
ClearStaticOnly ==
    /\ alive
    /\ experts' = << >>
    /\ expert_boundaries' = << >>
    /\ expert_blooms' = << >>
    /\ global_bloom' = BloomClear(global_bloom)
    /\ total_size' = 0
    /\ loaded' = << >>
    /\ ref' = EmptyMap
    /\ last' = [ NoCall EXCEPT !.op = "clear" ]
    /\ UNCHANGED << compression_level, delta_buffer_art, delta_buffer_hash,
                    alive, filter, inserted, baseline, evaluation >>

\* HALIv2Index::clear
Clear ==
    /\ alive
    /\ experts' = << >>
    /\ expert_boundaries' = << >>
    /\ expert_blooms' = << >>
    /\ global_bloom' = BloomClear(global_bloom)
    /\ delta_buffer_art' = EmptyMap
    /\ delta_buffer_hash' = EmptyMap
    /\ total_size' = 0
    /\ loaded' = << >>
    /\ ref' = EmptyMap
    /\ last' = [ NoCall EXCEPT !.op = "clear" ]
    /\ UNCHANGED << compression_level, alive, filter, inserted, baseline, evaluation >>

\* ------------------------------------------------------------------ specification

\* A constructed HALIv2Index, BloomFilter and PGMIndex, before any call.
Constructed ==
    /\ experts = << >>
    /\ expert_boundaries = << >>
    /\ global_bloom = BloomFilter(1000, 10)
    /\ expert_blooms = << >>
    /\ delta_buffer_art = EmptyMap
    /\ delta_buffer_hash = EmptyMap
    /\ total_size = 0
    /\ loaded = << >>
    /\ ref = EmptyMap
    /\ last = NoCall
    /\ alive = TRUE
    /\ filter = BloomFilter(1000, 10)
    /\ inserted = {}
    /\ pgm_keys = << >>
    /\ pgm_values = << >>
    /\ insert_buffer = << >>

\* HALIv2Index(compression_level): every member default-constructed.
Init ==
    /\ compression_level \in CompressionLevels
    /\ Constructed
    /\ Unevaluated

Next ==
    \/ \E kvs \in LoadInputs :
          \E ub \in DOMAIN LoadResults[compression_level][kvs] : Load(kvs, ub)
    \/ LoadEmpty
    \/ \E keys_size, values_size \in 0 .. MaxBuild : LoadMismatch(keys_size, values_size)
    \/ \E key \in Keys, value \in Values : Insert(key, value)
    \/ \E key \in Keys : Erase(key)
    \/ Clear

Spec == Init /\ [][Next]_vars

\* ------------------------------------------------------------------ find as a call

\* find that keeps a key found in the static tier in the delta buffer.
FindCaching(key) ==
    /\ alive
    /\ IF key \notin DOMAIN delta /\ find(key) # nullopt
       THEN IF compression_level < 5
            THEN /\ delta_buffer_hash' = MapOf(<< key >>, << CHOOSE v \in find(key) : TRUE >>)
                 /\ UNCHANGED delta_buffer_art
            ELSE /\ delta_buffer_art' = MapOf(<< key >>, << CHOOSE v \in find(key) : TRUE >>)
                 /\ UNCHANGED delta_buffer_hash
       ELSE UNCHANGED << delta_buffer_hash, delta_buffer_art >>
    /\ last' = [ NoCall EXCEPT !.op = "find", !.key = key, !.before = find(key) ]
    /\ UNCHANGED << compression_level, static_tier, loaded, ref, alive, filter, inserted, baseline, evaluation >>

\* HALIv2Index::find, a const member function: it assigns no member.  The call and
\* its result are recorded in last.
Find(key) ==
    /\ alive
    /\ last' = [ NoCall EXCEPT !.op = "find", !.key = key, !.before = find(key) ]
    /\ UNCHANGED << index, loaded, ref, alive, filter, inserted, baseline, evaluation >>

NextFind ==
    \/ Next
    \/ \E key \in Keys : Find(key)

SpecFind == Init /\ [][NextFind]_vars

\* ------------------------------------------------------------------ BloomFilter on its own

\* The bits_per_key a filter is constructed with: those of the compression levels,
\* and 1, the smallest for which the filter has bits.
BitsPerKey == { bloom_bits_per_key(c) : c \in CompressionLevels } \cup { 1 }

\* BloomFilter(expected_elements, bits_per_key) and the default BloomFilter().
ConstructedFilters ==
    { BloomFilter(e, b) : e \in 0 .. MaxExpected, b \in BitsPerKey } \cup { BloomFilter(1000, 10) }

\* BloomFilter::insert as a call.  In a filter of 0 bits (expected_elements = 0)
\* bit_pos = (h1 + i * h2) % num_bits_ divides by zero, which ends the process.
FilterInsert(key) ==
    /\ alive
    /\ filter.num_inserted < MaxInserts
    /\ IF filter.num_bits = 0
       THEN /\ alive' = FALSE
            /\ UNCHANGED << filter, inserted >>
       ELSE /\ filter' = BloomInsert(filter, key)
            /\ inserted' = inserted \cup { key }
            /\ UNCHANGED alive
    /\ UNCHANGED << index, loaded, ref, last, baseline, evaluation >>

\* BloomFilter::clear as a call.
FilterClear ==
    /\ alive
    /\ filter' = BloomClear(filter)
    /\ inserted' = {}
    /\ UNCHANGED << index, loaded, ref, last, alive, baseline, evaluation >>

BloomInit ==
    /\ compression_level = 5
    /\ experts = << >>
    /\ expert_boundaries = << >>
    /\ global_bloom = BloomFilter(1000, 10)
    /\ expert_blooms = << >>
    /\ delta_buffer_art = EmptyMap
    /\ delta_buffer_hash = EmptyMap
    /\ total_size = 0
    /\ loaded = << >>
    /\ ref = EmptyMap
    /\ last = NoCall
    /\ alive = TRUE
    /\ filter \in ConstructedFilters
    /\ inserted = {}
    /\ pgm_keys = << >>
    /\ pgm_values = << >>
    /\ insert_buffer = << >>
    /\ Unevaluated

BloomNext ==
    \/ \E key \in Keys : FilterInsert(key)
    \/ FilterClear

BloomSpec == BloomInit /\ [][BloomNext]_vars

\* ------------------------------------------------------------------ PGMIndex (pgm_index.h)

\* The longest insert_buffer_ explored.
MaxBuffer == 2

\* What std::sort of the indices by key can leave: the pairs in non-decreasing key
\* order, equal keys in any order (std::sort is not stable).
SortOutcomes(kvs) ==
    LET n == Len(kvs)
        orders == { p \in [ 1 .. n -> 1 .. n ] :
                      /\ \A i, j \in 1 .. n : p[i] = p[j] => i = j
                      /\ \A i \in 1 .. (n - 1) : kvs[p[i]][1] <= kvs[p[i + 1]][1] }
    IN  { [ i \in 1 .. n |-> kvs[p[i]] ] : p \in orders }

\* pgm_.search(key): the range [lo, hi) the segment search can return. The library
\* is not part of the sources: the range is any one inside keys_ that holds a
\* position of the key when the key is in keys_.
PGMSearchRanges(keys, key) ==
    { r \in [ lo : 0 .. Len(keys), hi : 0 .. Len(keys) ] :
        /\ r.lo <= r.hi
        /\ (\E i \in 1 .. Len(keys) : keys[i] = key)
              => \E i \in r.lo .. (r.hi - 1) : keys[i + 1] = key }

\* The position in keys_ at which the main index holds the key, or keys_.size()
\* when it does not: lower_bound within the range and the equality test.
PGMMainPosition(key, range) ==
    IF pgm_keys = << >> THEN 0
    ELSE LET it == LowerBound(pgm_keys, range.lo, range.hi, key)
         IN  IF it # range.hi /\ pgm_keys[it + 1] = key THEN it ELSE Len(pgm_keys)

\* The first position of insert_buffer_ holding the key, 0 when there is none.
BufferPosition(buffer, key) ==
    IF \E i \in 1 .. Len(buffer) : buffer[i][1] = key
    THEN CHOOSE i \in 1 .. Len(buffer) :
            buffer[i][1] = key /\ \A j \in 1 .. (i - 1) : buffer[j][1] # key
    ELSE 0

\* insert(key, value) checking the main index only.
PGMInsertReturnMainOnly(key, range) == PGMMainPosition(key, range) = Len(pgm_keys)

\* What insert(key, value) returns: false when the main index or the buffer holds the key.
PGMInsertReturn(key, range) ==
    /\ PGMMainPosition(key, range) = Len(pgm_keys)
    /\ BufferPosition(insert_buffer, key) = 0

PGMLoadedKeys == KeySet(loaded)

PGMInsert(key, value, range) ==
    LET ret == PGMInsertReturn(key, range)
        refret == key \notin PGMLoadedKeys /\ key \notin DOMAIN ref
    IN  /\ ret => Len(insert_buffer) < MaxBuffer
        /\ insert_buffer' = IF ret THEN Append(insert_buffer, << key, value >>)
                            ELSE insert_buffer
        /\ ref' = IF refret THEN MapInsert(ref, key, value) ELSE ref
        /\ last' = [ NoCall EXCEPT !.op = "insert", !.key = key, !.value = value,
                                   !.ret = ret, !.refret = refret ]
        /\ UNCHANGED << index, loaded, alive, filter, inserted, pgm_keys, pgm_values,
                        evaluation >>

\* What find(key) returns: the main index first, then the buffer.
PGMFindReturn(key, range) ==
    LET pos == PGMMainPosition(key, range)
        at == BufferPosition(insert_buffer, key)
    IN  IF pos # Len(pgm_keys) THEN { pgm_values[pos + 1] }
        ELSE IF at # 0 THEN { insert_buffer[at][2] }
        ELSE nullopt

PGMFind(key, range) ==
    /\ last' = [ NoCall EXCEPT !.op = "find", !.key = key,
                               !.before = PGMFindReturn(key, range) ]
    /\ UNCHANGED << index, loaded, ref, alive, filter, inserted, baseline, evaluation >>

PGMErase(key) ==
    LET at == BufferPosition(insert_buffer, key)
    IN  /\ insert_buffer' =
              IF at = 0 THEN insert_buffer
              ELSE SubSeq(insert_buffer, 1, at - 1)
                     \o SubSeq(insert_buffer, at + 1, Len(insert_buffer))
        /\ ref' = MapErase(ref, key)
        /\ last' = [ NoCall EXCEPT !.op = "erase", !.key = key, !.ret = (at # 0),
                                   !.refret = (key \in DOMAIN ref) ]
        /\ UNCHANGED << index, loaded, alive, filter, inserted, pgm_keys, pgm_values,
                        evaluation >>

PGMLoadInputs == SeqsUpTo(Keys \X Values, MaxBuild)

\* load(keys, values) of equally long vectors; kvs[i] is << keys[i], values[i] >>
\* and sorted is what the sort by key left.
PGMLoad(kvs, sorted) ==
    /\ pgm_keys' = KeysOf(sorted)
    /\ pgm_values' = ValuesOf(sorted)
    /\ insert_buffer' = << >>
    /\ loaded' = SortPairs(kvs)
    /\ ref' = EmptyMap
    /\ last' = [ NoCall EXCEPT !.op = "load" ]
    /\ UNCHANGED << index, alive, filter, inserted, evaluation >>

\* load(keys, values) with keys.size() # values.size(): the throw comes first.
PGMLoadMismatch(keys_size, values_size) ==
    /\ keys_size # values_size
    /\ last' = [ NoCall EXCEPT !.op = "load_throw" ]
    /\ UNCHANGED << index, loaded, ref, alive, filter, inserted, baseline, evaluation >>

PGMInit == compression_level = 0 /\ Init

PGMNext ==
    \/ \E kvs \in PGMLoadInputs : \E sorted \in SortOutcomes(kvs) : PGMLoad(kvs, sorted)
    \/ \E keys_size, values_size \in 0 .. MaxBuild : PGMLoadMismatch(keys_size, values_size)
    \/ \E key \in Keys, value \in Values :
          \E range \in PGMSearchRanges(pgm_keys, key) : PGMInsert(key, value, range)
    \/ \E key \in Keys : \E range \in PGMSearchRanges(pgm_keys, key) : PGMFind(key, range)
    \/ \E key \in Keys : PGMErase(key)

PGMSpec == PGMInit /\ [][PGMNext]_vars

\* ------------------------------------------------------------------ RMIExpert on its own

\* The longest run of consecutive keys and the key far above it.
MaxCluster == 135

FarKey == 2500

\* The keys 0 .. cluster-1 followed by one key above them.
ClusterAndOutlier(cluster, outlier) ==
    [ i \in 1 .. (cluster + 1) |-> IF i <= cluster THEN i - 1 ELSE outlier ]

\* The sorted key vectors an RMIExpert is built over: every strictly increasing
\* one of 1 .. MaxBuild keys, and runs of consecutive keys followed by one more
\* key, next to the run or far from it.
RMIKeyVectors ==
    { k \in SeqsUpTo(Keys, MaxBuild) \ { << >> } : \A i \in 1 .. (Len(k) - 1) : k[i] < k[i + 1] }
      \cup { ClusterAndOutlier(cluster, outlier) :
                cluster \in (MaxCluster - 1) .. MaxCluster, outlier \in { MaxCluster, FarKey } }

\* RMIExpert(k, v, k.front(), k.back()) with v[i] = i.
RMIExpertOver(k) == RMIExpert(k, [ i \in 1 .. Len(k) |-> i - 1 ], k[1], k[Len(k)])

RMIInit ==
    /\ compression_level = 0
    /\ Constructed
    /\ args \in UNION { { [ fn |-> "RMIExpert::find", keys |-> k, key |-> k[i] ] :
                            i \in 1 .. Len(k) } : k \in RMIKeyVectors }
    /\ result = NoEvaluation

\* find(key) of the expert built over args.keys.
RMIFind ==
    /\ args.fn = "RMIExpert::find"
    /\ result = NoEvaluation
    /\ result' = [ fn |-> "RMIExpert::find",
                   window |-> RMIExpertWindow(RMIExpertOver(args.keys), args.key),
                   ret |-> RMIExpertFind(RMIExpertOver(args.keys), args.key) ]
    /\ UNCHANGED << index, loaded, ref, last, alive, filter, inserted, baseline, args >>

RMINext == RMIFind

RMISpec == RMIInit /\ [][RMINext]_vars

\* ------------------------------------------------------------------ expert selection on its own

\* The largest distance of the last key of a partition from the run below it.
MaxGap == 300

\* keys.size() < 100 is too small for learning.
MinLearnedKeys == 100

\* The lengths of the long partitions: one below MinLearnedKeys and exactly it.
PartitionLengths == { MinLearnedKeys - 1, MinLearnedKeys }

\* The compression levels 0.0, 0.1, ..., 1.0 in tenths.
AllCompressionLevels == 0 .. 10

\* The key vectors of a partition: none, every strictly increasing one of
\* 1 .. MaxBuild keys, and runs of consecutive keys followed by one key at 16
\* distances up to MaxGap.
PartitionKeys ==
    { k \in SeqsUpTo(Keys, MaxBuild) : \A i \in 1 .. (Len(k) - 1) : k[i] < k[i + 1] }
      \cup { ClusterAndOutlier(len - 1, len - 1 + ((g * MaxGap) \div 15)) :
                len \in PartitionLengths, g \in 0 .. 15 }

SelectInit ==
    /\ compression_level \in AllCompressionLevels
    /\ Constructed
    /\ args \in [ fn : { "select_expert_type" }, keys : PartitionKeys ]
    /\ result = NoEvaluation

\* The expert load pushes for a partition holding args.keys, each with value 1.
SelectExpert ==
    /\ args.fn = "select_expert_type"
    /\ result = NoEvaluation
    /\ LET part == [ i \in 1 .. Len(args.keys) |-> << args.keys[i], 1 >> ]
           e == ExpertOfPartition(part, compression_level, 0, 0)
       IN  result' = [ fn |-> "select_expert_type", type |-> e.type, keys |-> e.keys ]
    /\ UNCHANGED << index, loaded, ref, last, alive, filter, inserted, baseline, args >>

SelectNext == SelectExpert

SelectSpec == SelectInit /\ [][SelectNext]_vars

\* ------------------------------------------------------------------ Config on its own

\* The largest number of keys adaptive_expert_count is evaluated for.
MaxKeyCount == 1000000

\* 21 numbers of keys from 0 to MaxKeyCount.
KeyCounts == { (j * MaxKeyCount) \div 20 : j \in 0 .. 20 }

CountInit ==
    /\ compression_level \in AllCompressionLevels
    /\ Constructed
    /\ args \in [ fn : { "adaptive_expert_count" }, n : KeyCounts ]
    /\ result = NoEvaluation

\* config_.adaptive_expert_count(n)
AdaptiveExpertCount ==
    /\ args.fn = "adaptive_expert_count"
    /\ result = NoEvaluation
    /\ result' = [ fn |-> "adaptive_expert_count",
                   count |-> adaptive_expert_count(args.n, compression_level) ]
    /\ UNCHANGED << index, loaded, ref, last, alive, filter, inserted, baseline, args >>

CountNext == AdaptiveExpertCount

CountSpec == CountInit /\ [][CountNext]_vars

\* ------------------------------------------------------------------ properties

\* The keys of the last load are pairwise distinct.
DistinctKeys(sd) == \A i, j \in 1 .. Len(sd) : sd[i][1] = sd[j][1] => i = j

\* An index that was built, from pairwise distinct keys whose span and whose
\* largest key plus one fit the key type: load computes nothing undefined and no
\* key arithmetic wraps.
PlainBuild ==
    /\ loaded # << >>
    /\ DistinctKeys(loaded)
    /\ max_global_key(loaded) < KeyModulus - 1

\* The keys an expert stores, over all experts.
StoredKeys == UNION { { experts[i].keys[j] : j \in 1 .. Len(experts[i].keys) } : i \in 1 .. Len(experts) }

\* The value a key was given at the last load.
BuiltValue(key) == { loaded[i][2] : i \in { j \in 1 .. Len(loaded) : loaded[j][1] = key } }


\* C1: right after load of n pairwise distinct keys, size() is n and find(keys[i])
\* is values[i] for every i (stated for the builds where no key arithmetic wraps).
C1_BuildIntegrity ==
    (last.op = "load" /\ PlainBuild) =>
        /\ size = Len(loaded)
        /\ \A i \in 1 .. Len(loaded) : find(loaded[i][1]) = { loaded[i][2] }

\* C2: every key stored in partition i lies in [boundaries[i], boundaries[i+1]),
\* and route_to_expert sends it to partition i.
C2_RouterInvariant ==
    PlainBuild =>
        \A i \in 1 .. Len(experts) : \A j \in 1 .. Len(experts[i].keys) :
            LET k == experts[i].keys[j]
            IN  /\ expert_boundaries[i] <= k
                /\ k < expert_boundaries[i + 1]
                /\ route_to_expert(k) = i - 1

\* C3: the boundary array, sentinel included, is strictly increasing and the
\* sentinel is above every stored key.
C3_BoundariesStrictlyIncreasing ==
    PlainBuild =>
        /\ \A i \in 1 .. (Len(expert_boundaries) - 1) :
              expert_boundaries[i] < expert_boundaries[i + 1]
        /\ \A k \in StoredKeys : k < expert_boundaries[Len(expert_boundaries)]

\* C4: find(k) is nullopt for every key that was not in the input of the last
\* load and is not in the delta buffer.
C4_ExactFind ==
    \A k \in Keys : (k \notin KeySet(loaded) /\ k \notin DOMAIN delta) => find(k) = nullopt

\* C4 witness: a built index and an absent key that passes the global Bloom filter
\* (a false positive) and is routed to a partition that stores keys and does not
\* reject it, so that the partition's own search decides.
C4_Witness ==
    /\ experts # << >>
    /\ \E k \in Keys :
          /\ k \notin KeySet(loaded)
          /\ k \notin DOMAIN delta
          /\ BloomContains(global_bloom, k)
          /\ LET e == route_to_expert(k) + 1
             IN  /\ experts[e].keys # << >>
                 /\ \/ BloomContains(expert_blooms[e], k)
                    \/ (experts[e].min_key <= k /\ k <= experts[e].max_key)
          /\ find(k) = nullopt

\* C5: every boolean result of insert and erase, and every find, equals that of
\* the reference map.
C5_MapSemantics ==
    (loaded = << >> \/ PlainBuild) =>
        /\ last.op \in { "insert", "erase" } => last.ret = last.refret
        /\ \A k \in Keys : find(k) = MapFind(ref, k)

\* C6: insert(k, v) of a key in neither tier returns true, and find(k) is then v.
C6_InsertFindRoundTrip ==
    (last.op = "insert" /\ last.key \notin KeySet(loaded) /\ ~last.in_delta) =>
        /\ last.ret
        /\ find(last.key) = { last.value }

\* C6 witness: such an insert on a built index.
C6_Witness ==
    /\ last.op = "insert" /\ last.key \notin KeySet(loaded) /\ ~last.in_delta
    /\ experts # << >>
    /\ last.ret

\* C7: insert(k, v') of a key present in either tier returns false, leaves size()
\* as it was, and find(k) still returns the value k had.
C7_InsertPresentRejected ==
    (last.op = "insert" /\ PlainBuild /\ (last.key \in KeySet(loaded) \/ last.in_delta)) =>
        /\ ~last.ret
        /\ size = last.size_before
        /\ find(last.key) = (IF last.in_delta THEN last.before ELSE BuiltValue(last.key))

\* C8: no key is in the delta buffer and in the stored keys of a partition.
C8_TierDisjointness ==
    PlainBuild => (DOMAIN delta) \cap StoredKeys = {}

\* C9: erase(k) returns true iff k is in the delta buffer; then k is no longer in
\* it, size() is one less, and a key that was not built is no longer found.
C9_EraseDeltaKey ==
    last.op = "erase" =>
        /\ last.ret <=> last.in_delta
        /\ last.ret =>
              /\ last.key \notin DOMAIN delta
              /\ size = last.size_before - 1
              /\ last.key \notin KeySet(loaded) => find(last.key) = nullopt

\* C9 witness: an erase that returned true, on a built index.
C9_Witness ==
    /\ last.op = "erase" /\ last.ret
    /\ experts # << >>
    /\ last.key \notin KeySet(loaded)

\* C10: erase(k) of a built key returns false, changes nothing, and find(k) still
\* returns the value given at build.
C10_EraseBuiltRefused ==
    (last.op = "erase" /\ PlainBuild /\ last.key \in KeySet(loaded)) =>
        /\ ~last.ret
        /\ size = last.size_before
        /\ find(last.key) = BuiltValue(last.key)

\* C11: load of no keys and no values succeeds and leaves an empty index: size() is
\* 0, find(k) is nullopt for every k, and insert(k, v) of any key then returns true.
C11_EmptyBuild ==
    (last.op = "load" /\ loaded = << >>) =>
        /\ alive
        /\ size = 0
        /\ \A k \in Keys : find(k) = nullopt
        /\ \A k \in Keys, v \in Values : InsertReturn(k, v)

\* C12: a load whose keys hold the same key twice changes no member of the index.
C12_DuplicateKeyRejected ==
    [][ (last'.op = "load" /\ loaded' # << >> /\ ~DistinctKeys(loaded')) => UNCHANGED index ]_vars

\* C13: a load with keys.size() != values.size() throws and leaves every member of
\* the index (experts, boundaries, Bloom filters, delta buffers, total_size_) as it
\* was, so size() too.
C13_LengthMismatchRejected ==
    [][ last'.op = "load_throw" => (UNCHANGED index /\ size' = size) ]_vars

\* C13 witness: the load threw on an index that holds built keys and a delta key.
C13_Witness ==
    /\ last.op = "load_throw"
    /\ experts # << >>
    /\ DOMAIN delta # {}

\* C14: a load of n keys builds at most n partitions, and min(4, n) of them when
\* n < 4.
C14_ExpertCountClamped ==
    (last.op = "load" /\ PlainBuild) =>
        /\ Len(experts) <= Len(loaded)
        /\ Len(loaded) < 4 => Len(experts) = Min(4, Len(loaded))

\* C15: after a load, the global Bloom filter contains every key of its input, and
\* so does the Bloom filter of the partition route_to_expert selects for the key;
\* insert and erase do not change this.
C15_BloomConsistency ==
    PlainBuild =>
        \A k \in KeySet(loaded) :
            /\ BloomContains(global_bloom, k)
            /\ BloomContains(expert_blooms[route_to_expert(k) + 1], k)

\* C16: size() is the number of keys of the last load (0 if there was none or the
\* index was cleared) plus the number of keys in the delta buffer; an insert or
\* erase that returned true changed size() by one, one that returned false left it.
C16_SizeAccounting ==
    alive =>
        /\ size = Len(loaded) + Cardinality(DOMAIN delta)
        /\ last.op = "insert" => size = last.size_before + (IF last.ret THEN 1 ELSE 0)
        /\ last.op = "erase" => size = last.size_before - (IF last.ret THEN 1 ELSE 0)

\* C16 witness: an insert was refused on an index with built keys and a delta key.
C16_Witness ==
    /\ last.op = "insert" /\ ~last.ret
    /\ total_size > 0
    /\ Cardinality(DOMAIN delta) > 0
    /\ size = total_size + 1

C18_FindPure ==
    [][ \A k \in Keys :
          (last'.op = "find" /\ last'.key = k) =>
              (UNCHANGED index /\ find(k)' = last'.before) ]_vars

\* C18 witness: a find that returned a value from the static tier, on an index whose
\* delta buffer holds a key.
C18_Witness ==
    /\ last.op = "find"
    /\ last.before # nullopt
    /\ last.key \notin DOMAIN delta
    /\ DOMAIN delta # {}

\* C19: after clear() size() is 0, find(k) is nullopt for every k, insert of any key
\* would return true, and every member is as in a freshly constructed index (the
\* global Bloom filter keeps its number of bits, with no bit set).
C19_ClearEmpties ==
    last.op = "clear" =>
        /\ size = 0
        /\ \A k \in Keys : find(k) = nullopt
        /\ \A k \in Keys, v \in Values : InsertReturn(k, v)
        /\ experts = << >> /\ expert_boundaries = << >> /\ expert_blooms = << >>
        /\ global_bloom.bits = {} /\ global_bloom.num_inserted = 0
        /\ delta_buffer_art = EmptyMap /\ delta_buffer_hash = EmptyMap
        /\ total_size = 0

\* C19 witness: clear() of an index that had been built: its global Bloom filter
\* has the size load gave it.
C19_Witness ==
    /\ last.op = "clear"
    /\ global_bloom.num_bits = 64

C21_BaselineContract ==
    /\ last.op = "find" =>
          IF last.key \in PGMLoadedKeys
          THEN \E i \in 1 .. Len(loaded) :
                  loaded[i][1] = last.key /\ last.before = { loaded[i][2] }
          ELSE last.before = MapFind(ref, last.key)
    /\ last.op \in { "insert", "erase" } => last.ret = last.refret
    /\ DistinctKeys(insert_buffer)
    /\ KeySet(insert_buffer) \cap PGMLoadedKeys = {}
    /\ KeySet(insert_buffer) = DOMAIN ref
    /\ \A i \in 1 .. Len(insert_buffer) : ref[insert_buffer[i][1]] = insert_buffer[i][2]
    /\ KeySet(loaded) = { pgm_keys[i] : i \in 1 .. Len(pgm_keys) }

\* A find of a key that was inserted, refused a second insert with another value
\* and kept its first value, over a loaded array of two keys.
C21_Witness ==
    /\ Len(pgm_keys) = 2
    /\ Len(insert_buffer) = 2
    /\ last.op = "find"
    /\ last.key \in DOMAIN ref
    /\ last.before = { 2 }

\* A build from pairwise distinct keys whose largest key is the largest value of
\* the key type: max_global_key + 1 wraps, and with the smallest key 0 the span
\* max_global_key - min_global_key + 1 wraps as well.
WideBuild ==
    /\ loaded # << >>
    /\ DistinctKeys(loaded)
    /\ max_global_key(loaded) = KeyModulus - 1

\* C22: in a build whose key range reaches the end of the key type, the boundaries
\* are strictly increasing and every stored key is routed to the partition that
\* stores it.
C22_WideKeyRange ==
    WideBuild =>
        /\ \A i \in 1 .. (Len(expert_boundaries) - 1) :
              expert_boundaries[i] < expert_boundaries[i + 1]
        /\ \A i \in 1 .. Len(experts) : \A j \in 1 .. Len(experts[i].keys) :
              route_to_expert(experts[i].keys[j]) = i - 1

\* C23: RMIExpert::find of the key at position i returns values[i] whenever the
\* clamped prediction is within 64 positions of i, and the window searched stays
\* inside [0, keys.size()].
C23_BoundedWindow ==
    result.fn = "RMIExpert::find" =>
        LET p == Len(args.keys)
            w == result.window
        IN  /\ 0 <= w.start /\ w.start <= w.end /\ w.end <= p
            /\ \A i \in 0 .. (p - 1) :
                  (args.keys[i + 1] = args.key /\ i - w.pos <= ERROR /\ w.pos - i <= ERROR)
                      => result.ret = { i }

\* The decision table of the expert kinds for a partition of p keys with
\* linearity r2 at compression level c (in tenths).
ExpertKindTable(p, c, r2) ==
    IF p < 100 THEN "ART"
    ELSE IF c < 3 THEN (IF LinearityAbove(r2, 90) THEN "RMI" ELSE "ART")
    ELSE IF c > 7 THEN (IF LinearityAbove(r2, 70) THEN "PGM" ELSE "RMI")
    ELSE IF LinearityAbove(r2, 95) THEN "PGM"
    ELSE IF LinearityAbove(r2, 80) THEN "RMI"
    ELSE "ART"

C25_ExpertCountMonotone ==
    result.fn = "adaptive_expert_count" =>
        /\ result.count >= 4
        /\ \A c \in AllCompressionLevels :
              c <= compression_level => adaptive_expert_count(args.n, c) <= result.count

\* A number of keys for which the count is above 4 at compression level 0.0 and
\* larger still at 1.0.
C25_Witness ==
    /\ result.fn = "adaptive_expert_count"
    /\ compression_level = 10
    /\ adaptive_expert_count(args.n, 0) > 4
    /\ result.count > adaptive_expert_count(args.n, 0)

\* C26: a key held by the delta buffer is found with the delta buffer's value,
\* whatever the Bloom filters, the router and the experts hold.
C26_DeltaPrecedence ==
    /\ \A k \in DOMAIN delta : find(k) = { delta[k] }
    /\ (last.op = "find" /\ last.key \in DOMAIN delta) => last.before = { delta[last.key] }

\* A find of a delta key over a built index whose global Bloom filter does not
\* contain the key.
C26_Witness ==
    /\ last.op = "find"
    /\ last.key \in DOMAIN delta
    /\ experts # << >>
    /\ ~BloomContains(global_bloom, last.key)
    /\ last.before = { delta[last.key] }

\* max(1, round(bits_per_key * ln 2)), with ln 2 = 0.693147.
RoundedLn2Probes(bits_per_key) == Max(1, (bits_per_key * 693147 + 500000) \div 1000000)

\* C27: the Bloom filters of a built index probe max(1, round(bits_per_key * ln 2))
\* positions per key, 7 at 10 bits per key.
C27_ProbeCount ==
    loaded # << >> =>
        LET k == RoundedLn2Probes(bloom_bits_per_key(compression_level))
        IN  /\ global_bloom.num_hash_functions = k
            /\ \A i \in 1 .. Len(expert_blooms) : expert_blooms[i].num_hash_functions = k

\* How often the pair kv occurs in the sequence of pairs s.
Occurrences(s, kv) == Cardinality({ i \in 1 .. Len(s) : s[i] = kv })

\* The pairs partition i stores: its keys with its values, index by index.
PartitionPairs(i) ==
    [ j \in 1 .. Len(experts[i].keys) |-> << experts[i].keys[j], experts[i].values[j] >> ]

\* C28: a build puts every input pair in exactly one of the partitions
\* 0 .. m-1, the partitions' keys together are the input keys, the values stay
\* aligned with the keys, and for pairwise distinct input keys the keys of every
\* partition are strictly increasing.
C28_PartitionPreservesKeys ==
    loaded # << >> =>
        /\ \A i \in 1 .. Len(experts) : Len(experts[i].keys) = Len(experts[i].values)
        /\ \A kv \in Keys \X Values :
              Occurrences(loaded, kv)
                 = SumTo([ i \in 1 .. Len(experts) |-> Occurrences(PartitionPairs(i), kv) ],
                         Len(experts))
        /\ StoredKeys = KeySet(loaded)
        /\ DistinctKeys(loaded) =>
              /\ \A k \in KeySet(loaded) :
                    Cardinality({ i \in 1 .. Len(experts) :
                                    \E j \in 1 .. Len(experts[i].keys) : experts[i].keys[j] = k }) = 1
              /\ \A i \in 1 .. Len(experts) : \A j \in 1 .. (Len(experts[i].keys) - 1) :
                    experts[i].keys[j] < experts[i].keys[j + 1]

\* A build that has just put two distinct keys, with different values, in two
\* partitions.
C28_Witness ==
    /\ last.op = "load"
    /\ Len(loaded) = 2
    /\ loaded[1][2] # loaded[2][2]
    /\ \E i, j \in 1 .. Len(experts) :
          i # j /\ experts[i].keys # << >> /\ experts[j].keys # << >>

\* C29: after a build from at least one pair there are as many experts as expert
\* Bloom filters and one boundary more, and route_to_expert gives an index of an
\* expert for every key of the key type.
C29_RoutingInBounds ==
    loaded # << >> =>
        /\ Len(experts) = Len(expert_blooms)
        /\ Len(expert_boundaries) = Len(experts) + 1
        /\ \A k \in Keys : route_to_expert(k) \in 0 .. (Len(experts) - 1)

\* A build that has just left a key below the first boundary, routed to the first
\* expert, and a key above the largest built key, routed to the last of several.
C29_Witness ==
    /\ last.op = "load"
    /\ Len(experts) > 1
    /\ \E k \in Keys : k < expert_boundaries[1] /\ route_to_expert(k) = 0
    /\ \E k \in Keys : k > max_global_key(loaded) /\ route_to_expert(k) = Len(experts) - 1

\* C30: a load of at least one pair on an index that holds built keys and a
\* delta key leaves size() at the number of pairs given, both delta buffers empty,
\* and no key outside the new input findable.
C30_SecondLoadReplaces ==
    [][ (experts # << >> /\ DOMAIN delta # {} /\ last'.op = "load" /\ loaded' # << >>) =>
            /\ size' = Len(loaded')
            /\ delta_buffer_art' = EmptyMap
            /\ delta_buffer_hash' = EmptyMap
            /\ \A k \in Keys : k \notin KeySet(loaded') => find(k)' = nullopt ]_vars

\* A load of one pair on an index that held three entries, one of them in the
\* delta buffer.
C30_Witness ==
    /\ last.op = "load"
    /\ last.in_delta
    /\ last.size_before = 3
    /\ Len(loaded) = 1
    /\ size = 1

====
